---------------------------- MODULE Spec2Model ----------------------------
(***************************************************************************)
(* Exact-rational complex continued-fraction engine of trig-analyse:       *)
(* rational arithmetic (public/RationalBigInt.js), the Complex type        *)
(* (Complex.js) and the coefficient generator, convergent engine and       *)
(* stable exponentiation (public/Trig.js).                                 *)
(*                                                                         *)
(* The source computes on JavaScript BigInt values of unbounded size.      *)
(* TLC's integers are 32 bits wide, so the three magnitude constants of    *)
(* the source are scaled down here and every operator is otherwise the     *)
(* source's own computation:                                               *)
(*    MAX_DEN         10^30   ->  MaxDenModel                              *)
(*    precisionScale  10^60   ->  MAX_DEN * MAX_DEN  (as 10^60 = (10^30)^2)*)
(*    baseLimit       2^106   ->  2^LimitBits                              *)
(* BigInt `/` truncates toward zero and `%` takes the sign of the          *)
(* dividend; TDiv and TRem model them.                                     *)
(***************************************************************************)
EXTENDS Integers, Sequences, FiniteSets, TLC

VARIABLES
    \* approxFrac call: its arguments and its return value
    afIn, afOut,
    \* powComplexStable: arguments, locals, position in the code, return value
    base, exponent, exp, isNegative, result, x, powPc, powRet,
    \* which operation produced the current value of result and of x
    resultFrom, xFrom,
    \* generateCoefficients call: its arguments and its return value
    genIn, genOut,
    \* the call made on the convergent engine (computeAllConvergents called
    \* directly, or expWithConvergents)
    call,
    \* computeAllConvergents: arguments, locals, position, return value
    coefficients, numerator, LIMIT, i, p_prev_prev, p_prev, q_prev_prev,
    q_prev, convergents, mathLimitIndex, ccPc, ccRet,
    \* expWithConvergents: position and return value
    expPc, expRet,
    \* exp, cos, sin: position and return value
    trigPc, trigRet,
    \* a call of one rational, square-root or Complex operation: the
    \* operation with its arguments, and its return value
    opIn, opOut,
    \* the rate limiter: the keys of one (endpoint, ip) in the KV store, the
    \* limit, and for each call of checkRateLimit its ip, its position, the
    \* entry it read and the value its promise resolved to
    kv, maxRequests, ip, rlPc, rlEntry, rlRet,
    \* pruneZombies: its position and the entries its list returned
    prunePc, pruneEntries

fracVars == <<afIn, afOut>>
powVars == <<base, exponent, exp, isNegative, result, x, powPc, powRet,
             resultFrom, xFrom>>
genVars == <<genIn, genOut>>
ccVars == <<coefficients, numerator, LIMIT, i, p_prev_prev, p_prev,
            q_prev_prev, q_prev, convergents, mathLimitIndex, ccPc, ccRet>>
cfVars == <<call, ccVars, expPc, expRet>>
trigVars == <<trigPc, trigRet>>
opVars == <<opIn, opOut>>
rlVars == <<kv, maxRequests, ip, rlPc, rlEntry, rlRet, prunePc, pruneEntries>>
vars == <<fracVars, powVars, genVars, cfVars, trigVars, opVars, rlVars>>
notFrac == <<powVars, genVars, cfVars, trigVars, opVars, rlVars>>
notPow == <<fracVars, genVars, cfVars, trigVars, opVars, rlVars>>
notGen == <<fracVars, powVars, cfVars, trigVars, opVars, rlVars>>
\* what computeAllConvergents and expWithConvergents leave alone
notCF == <<fracVars, powVars, genVars, trigVars, opVars, rlVars>>
\* what exp, cos and sin leave alone once expWithConvergents has returned
notTrig == <<fracVars, powVars, genVars, cfVars, opVars, rlVars>>
notOp == <<fracVars, powVars, genVars, cfVars, trigVars, rlVars>>
\* what the rate limiter leaves alone
notRL == <<fracVars, powVars, genVars, cfVars, trigVars, opVars>>

-----------------------------------------------------------------------------
(* Bounds of the model *)

\* scaled stand-in for the 10^30 of MAX_DEN
MaxDenModel == 5
\* approxFrac is applied to num in -MaxFracNum..MaxFracNum, den in 1..MaxFracDen
\* and maxDen in 1..MaxFracCap
MaxFracNum == 12
MaxFracDen == 8
MaxFracCap == 6
\* powComplexStable is run for exponents in -MaxExp..MaxExp
MaxExp == 6
\* generateCoefficients is applied to n in -2..MaxGenQ and k in 0..MaxGenK
MaxGenQ == 4
MaxGenK == 26
\* scaled stand-in for the 106 of baseLimit = 2^106
LimitBits == 3
\* the convergent engine is run on the coefficients generated for
\* denominators 1..MaxQ and term counts 0..MaxTerms, with numerators in
\* -MaxNumerator..MaxNumerator
MaxQ == 3
MaxTerms == 4
MaxNumerator == 2
\* the rational operations are applied to n / d with n in
\* -MaxRatNum..MaxRatNum and d in -MaxRatDen..MaxRatDen
MaxRatNum == 3
MaxRatDen == 3
\* the Complex operations are applied to components n / d with n in
\* -MaxCxNum..MaxCxNum and d in 1..MaxCxDen
MaxCxNum == 2
MaxCxDen == 2
\* bigIntSqrt is applied to -1..MaxSqrt
MaxSqrt == 400
\* toFloating: the bit length above which it shifts (1000 in the source)
\* and the bits it keeps (500 in the source)
FloatBitLimit == 6
FloatKeptBits == 3
\* the rationals handed to toFloating
MaxFloatNum == 130
MaxFloatDen == 9
\* the Complex values handed to normalizeComplex
MaxNormNum == 27
MaxNormDen == 2
\* the concurrent calls of checkRateLimit, and the limits they are given
MaxCallers == 3
MaxLimit == 2

-----------------------------------------------------------------------------
(* BigInt arithmetic *)

Abs(v) == IF v < 0 THEN -v ELSE v

\* BigInt a / b
TDiv(a, b) ==
    IF (a >= 0) = (b > 0) THEN Abs(a) \div Abs(b) ELSE -(Abs(a) \div Abs(b))

\* BigInt a % b
TRem(a, b) == a - b * TDiv(a, b)

\* value.toString(2).length for value >= 0
RECURSIVE BitLength(_)
BitLength(v) == IF v < 2 THEN 1 ELSE 1 + BitLength(v \div 2)

Thrown(msg) == [error |-> msg]

-----------------------------------------------------------------------------
(* public/RationalBigInt.js *)

MAX_DEN == MaxDenModel

\* the while loop of bigIntSqrt; sx and sy are its x and y
RECURSIVE bigIntSqrtLoop(_, _, _)
bigIntSqrtLoop(value, sx, sy) ==
    IF sy < sx
    THEN bigIntSqrtLoop(value, sy, (sy + value \div sy) \div 2)
    ELSE sx

\* mutant of bigIntSqrt: the first guess takes the floor of half the bit
\* length, which can lie below the root
bigIntSqrt_LowGuess(value) ==
    IF value < 0 THEN Thrown("Square root of negative number")
    ELSE IF value < 2 THEN value
    ELSE LET sx == 2 ^ (BitLength(value) \div 2)
             sy == (sx + value \div sx) \div 2
         IN  bigIntSqrtLoop(value, sx, sy)

bigIntSqrt(value) ==
    IF value < 0 THEN Thrown("Square root of negative number")
    ELSE IF value < 2 THEN value
    ELSE LET sx == 2 ^ ((BitLength(value) + 1) \div 2)
             sy == (sx + value \div sx) \div 2
         IN  bigIntSqrtLoop(value, sx, sy)

RECURSIVE gcdLoop(_, _)
gcdLoop(a, b) == IF b # 0 THEN gcdLoop(b, a % b) ELSE a

gcd(a, b) == gcdLoop(Abs(a), Abs(b))

\* mutant of normalizeRational: the sign of the denominator is not moved to
\* the numerator
normalizeRational_NoSignFix(r) ==
    IF r.d = 0 THEN Thrown("Division by zero: denominator cannot be zero")
    ELSE IF r.n = 0 THEN [n |-> 0, d |-> 1]
    ELSE LET g == gcd(r.n, r.d)
         IN  [n |-> TDiv(r.n, g), d |-> TDiv(r.d, g)]

\* mutant of normalizeRational: the zero numerator is tested before the zero
\* denominator
normalizeRational_ZeroNumeratorFirst(r) ==
    IF r.n = 0 THEN [n |-> 0, d |-> 1]
    ELSE IF r.d = 0 THEN Thrown("Division by zero: denominator cannot be zero")
    ELSE LET n == IF r.d < 0 THEN -r.n ELSE r.n
             d == IF r.d < 0 THEN -r.d ELSE r.d
             g == gcd(n, d)
         IN  [n |-> n \div g, d |-> d \div g]

normalizeRational(r) ==
    IF r.d = 0 THEN Thrown("Division by zero: denominator cannot be zero")
    ELSE IF r.n = 0 THEN [n |-> 0, d |-> 1]
    ELSE LET n == IF r.d < 0 THEN -r.n ELSE r.n
             d == IF r.d < 0 THEN -r.d ELSE r.d
             g == gcd(n, d)
         IN  [n |-> n \div g, d |-> d \div g]

\* mutant of approxFracLoop: the loop is left as soon as the denominator
\* reaches maxDen
RECURSIVE approxFracLoop_BreaksAtCap(_, _, _, _, _, _, _)
approxFracLoop_BreaksAtCap(a, b, p0, q0, p1, q1, maxDen) ==
    IF b # 0
    THEN LET k  == TDiv(a, b)
             p2 == k * p1 + p0
             q2 == k * q1 + q0
         IN  IF q2 >= maxDen
             THEN [n |-> p1, d |-> q1]
             ELSE approxFracLoop_BreaksAtCap(b, TRem(a, b), p1, q1, p2, q2,
                                             maxDen)
    ELSE [n |-> p1, d |-> q1]

RECURSIVE approxFracLoop(_, _, _, _, _, _, _)
approxFracLoop(a, b, p0, q0, p1, q1, maxDen) ==
    IF b # 0
    THEN LET k  == TDiv(a, b)
             p2 == k * p1 + p0
             q2 == k * q1 + q0
         IN  IF q2 > maxDen
             THEN [n |-> p1, d |-> q1]
             ELSE approxFracLoop(b, TRem(a, b), p1, q1, p2, q2, maxDen)
    ELSE [n |-> p1, d |-> q1]

approxFrac(num, den, maxDen) == approxFracLoop(num, den, 0, 1, 1, 0, maxDen)

\* the values b takes at line 53, one per test of the loop condition
RECURSIVE approxFracRemainders(_, _, _, _, _)
approxFracRemainders(a, b, q0, q1, maxDen) ==
    IF b # 0
    THEN LET k  == TDiv(a, b)
             q2 == k * q1 + q0
         IN  IF q2 > maxDen
             THEN << b >>
             ELSE << b >> \o approxFracRemainders(b, TRem(a, b), q1, q2,
                                                  maxDen)
    ELSE << b >>

addRational(a, b) ==
    normalizeRational([n |-> a.n * b.d + b.n * a.d, d |-> a.d * b.d])

subtractRational(a, b) ==
    normalizeRational([n |-> a.n * b.d - b.n * a.d, d |-> a.d * b.d])

multiplyRational(a, b) ==
    normalizeRational([n |-> a.n * b.n, d |-> a.d * b.d])

\* mutant of divideRational: the quotient is inverted
divideRational_Inverted(a, b) ==
    IF b.n = 0 THEN Thrown("Division by zero")
    ELSE normalizeRational([n |-> a.d * b.n, d |-> a.n * b.d])

divideRational(a, b) ==
    IF b.n = 0 THEN Thrown("Division by zero")
    ELSE normalizeRational([n |-> a.n * b.d, d |-> a.d * b.n])

isZero(r) == r.n = 0

-----------------------------------------------------------------------------
(* Complex.js *)

\* new Complex(reN, reD, imN, imD) on BigInt arguments
Complex(reN, reD, imN, imD) ==
    [re |-> normalizeRational([n |-> reN, d |-> reD]),
     im |-> normalizeRational([n |-> imN, d |-> imD])]

ONE == Complex(1, 1, 0, 1)
ZERO == Complex(0, 1, 0, 1)
I == Complex(0, 1, 1, 1)

add(z, c) ==
    LET newRe == addRational(z.re, c.re)
        newIm == addRational(z.im, c.im)
    IN  Complex(newRe.n, newRe.d, newIm.n, newIm.d)

\* mutant of multiply: the real part adds bd instead of subtracting it
multiply_AddsBd(z, c) ==
    LET ac == multiplyRational(z.re, c.re)
        bd == multiplyRational(z.im, c.im)
        realPart == addRational(ac, bd)
        ad == multiplyRational(z.re, c.im)
        bc == multiplyRational(z.im, c.re)
        imagPart == addRational(ad, bc)
    IN  Complex(realPart.n, realPart.d, imagPart.n, imagPart.d)

multiply(z, c) ==
    LET ac == multiplyRational(z.re, c.re)
        bd == multiplyRational(z.im, c.im)
        realPart == subtractRational(ac, bd)
        ad == multiplyRational(z.re, c.im)
        bc == multiplyRational(z.im, c.re)
        imagPart == addRational(ad, bc)
    IN  Complex(realPart.n, realPart.d, imagPart.n, imagPart.d)

magnitudeSquaredRational(z) ==
    addRational(multiplyRational(z.re, z.re), multiplyRational(z.im, z.im))

\* z.divide(c); the caller's throw on a zero divisor is DivideThrows
DivideThrows(c) ==
    isZero(addRational(multiplyRational(c.re, c.re),
                       multiplyRational(c.im, c.im)))

divide(z, c) ==
    LET denom == addRational(multiplyRational(c.re, c.re),
                             multiplyRational(c.im, c.im))
        conj == Complex(c.re.n, c.re.d, -c.im.n, c.im.d)
        dividend == Complex(z.re.n, z.re.d, z.im.n, z.im.d)
        ac == multiplyRational(dividend.re, conj.re)
        bd == multiplyRational(dividend.im, conj.im)
        realPart == subtractRational(ac, bd)
        ad == multiplyRational(dividend.re, conj.im)
        bc == multiplyRational(dividend.im, conj.re)
        imagPart == addRational(ad, bc)
        finalRe == divideRational(realPart, denom)
        finalIm == divideRational(imagPart, denom)
    IN  IF isZero(denom) THEN Thrown("Division by zero")
        ELSE Complex(finalRe.n, finalRe.d, finalIm.n, finalIm.d)

conjugate(z) == Complex(z.re.n, z.re.d, -z.im.n, z.im.d)

precisionScale == MAX_DEN * MAX_DEN

normalizeComplex(z) ==
    IF isZero(z.re) /\ isZero(z.im) THEN ZERO
    ELSE LET xSq == multiplyRational(z.re, z.re)
             ySq == multiplyRational(z.im, z.im)
             magSq == addRational(xSq, ySq)
             precisionScaleSq == precisionScale * precisionScale
             S2 == TDiv(magSq.d * precisionScaleSq, magSq.n)
             S == bigIntSqrt(S2)
             newReN == z.re.n * S
             newReD == z.re.d * precisionScale
             newImN == z.im.n * S
             newImD == z.im.d * precisionScale
             reApprox == approxFrac(newReN, newReD, MAX_DEN)
             imApprox == approxFrac(newImN, newImD, MAX_DEN)
         IN  IF magSq.n = 0 THEN ZERO
             ELSE Complex(reApprox.n, reApprox.d, imApprox.n, imApprox.d)

-----------------------------------------------------------------------------
(* approxFrac applied to bounded arguments *)

NoCall == [called |-> FALSE]

FracIdle ==
    /\ afIn = NoCall
    /\ afOut = NoCall

ApproxFracCall ==
    /\ \E num \in -MaxFracNum..MaxFracNum, den \in 1..MaxFracDen,
          maxDen \in 1..MaxFracCap :
           /\ afIn' = [called |-> TRUE, num |-> num, den |-> den,
                       maxDen |-> maxDen]
           /\ afOut' = approxFrac(num, den, maxDen)
    /\ UNCHANGED notFrac

-----------------------------------------------------------------------------
(* public/Trig.js: powComplexStable *)

\* An exponent is a JavaScript number (integer-valued here) or a BigInt.
Exponent(type, val) == [type |-> type, val |-> val]

\* line 119: typeof exponent === 'bigint' ? exponent
\*                                         : BigInt(Math.abs(Math.round(exponent)))
powExp(e) == IF e.type = "bigint" THEN e.val ELSE Abs(e.val)

\* line 120
powIsNegative(e) == e.type = "number" /\ e.val < 0

\* the while loop, lines 125-133
RECURSIVE powLoop(_, _, _)
powLoop(r, xx, e) ==
    IF e > 0
    THEN powLoop(IF e % 2 = 1 THEN normalizeComplex(multiply(r, xx)) ELSE r,
                 normalizeComplex(multiply(xx, xx)),
                 e \div 2)
    ELSE r

powComplexStable(z, e) ==
    LET r == powLoop(ONE, z, powExp(e))
    IN  IF powIsNegative(e) THEN conjugate(r) ELSE r

\* The same function, one statement at a time.
PowBases ==
    { Complex(1, 1, 1, 1),   Complex(1, 1, 0, 1),  Complex(1, 1, 1, 2),
      Complex(1, 1, 1, 3),   Complex(-1, 1, 1, 1), Complex(1, 2, -1, 2),
      Complex(0, 1, -1, 1),  Complex(-1, 1, 0, 1), Complex(2, 1, 0, 1),
      Complex(-1, 2, -1, 3), Complex(0, 1, 0, 1),  Complex(0, 1, 1, 1),
      Complex(1, 2, 1, 2),   Complex(-1, 2, 1, 2), Complex(4, 5, 3, 5),
      Complex(-4, 5, -3, 5) }

PowIdle ==
    /\ base = ZERO
    /\ exponent = Exponent("number", 0)
    /\ exp = 0
    /\ isNegative = FALSE
    /\ result = ONE
    /\ x = ZERO
    /\ powPc = "off"
    /\ powRet = ZERO
    /\ resultFrom = "init"
    /\ xFrom = "init"

PowInit ==
    /\ base \in PowBases
    /\ exponent \in { Exponent(t, v) : t \in {"number", "bigint"},
                                       v \in -MaxExp..MaxExp }
    /\ exp = 0
    /\ isNegative = FALSE
    /\ result = ONE
    /\ x = ZERO
    /\ powPc = "start"
    /\ powRet = ZERO
    /\ resultFrom = "init"
    /\ xFrom = "init"

\* lines 119-123
PowEnter ==
    /\ powPc = "start"
    /\ exp' = powExp(exponent)
    /\ isNegative' = powIsNegative(exponent)
    /\ result' = ONE
    /\ x' = base
    /\ powPc' = "while"
    /\ UNCHANGED <<base, exponent, powRet, resultFrom, xFrom, notPow>>

\* line 125: while (exp > 0n)
PowWhile ==
    /\ powPc = "while"
    /\ powPc' = IF exp > 0 THEN "if" ELSE "return"
    /\ UNCHANGED <<base, exponent, exp, isNegative, result, x, powRet,
                   resultFrom, xFrom, notPow>>

\* lines 126-127: if (exp & 1n) result = result.multiply(x)
PowMultiplyResult ==
    /\ powPc = "if"
    /\ IF exp % 2 = 1
       THEN /\ result' = multiply(result, x)
            /\ resultFrom' = "multiply"
            /\ powPc' = "normalizeResult"
       ELSE /\ powPc' = "square"
            /\ UNCHANGED <<result, resultFrom>>
    /\ UNCHANGED <<base, exponent, exp, isNegative, x, powRet, xFrom, notPow>>

\* line 128: result = Complex.normalizeComplex(result)
PowNormalizeResult ==
    /\ powPc = "normalizeResult"
    /\ result' = normalizeComplex(result)
    /\ resultFrom' = "normalizeComplex"
    /\ powPc' = "square"
    /\ UNCHANGED <<base, exponent, exp, isNegative, x, powRet, xFrom, notPow>>

\* mutant of PowSquare: the square is stored into the object x refers to,
\* which on the first iteration is the base itself
PowSquare_InPlace ==
    /\ powPc = "square"
    /\ x' = multiply(x, x)
    /\ base' = IF xFrom = "init" THEN multiply(x, x) ELSE base
    /\ xFrom' = "multiply"
    /\ powPc' = "normalizeX"
    /\ UNCHANGED <<exponent, exp, isNegative, result, powRet,
                   resultFrom, notPow>>

\* line 130: x = x.multiply(x)
PowSquare ==
    /\ powPc = "square"
    /\ x' = multiply(x, x)
    /\ xFrom' = "multiply"
    /\ powPc' = "normalizeX"
    /\ UNCHANGED <<base, exponent, exp, isNegative, result, powRet,
                   resultFrom, notPow>>

\* mutant of PowNormalizeX: the squared x is carried on without being
\* renormalized (the variant tried in test_fix.js)
PowNormalizeX_Skipped ==
    /\ powPc = "normalizeX"
    /\ powPc' = "shift"
    /\ UNCHANGED <<base, exponent, exp, isNegative, result, x, powRet,
                   resultFrom, xFrom, notPow>>

\* line 131: x = Complex.normalizeComplex(x)
PowNormalizeX ==
    /\ powPc = "normalizeX"
    /\ x' = normalizeComplex(x)
    /\ xFrom' = "normalizeComplex"
    /\ powPc' = "shift"
    /\ UNCHANGED <<base, exponent, exp, isNegative, result, powRet,
                   resultFrom, notPow>>

\* mutant of PowShift: the exponent is not shifted
PowShift_NoHalving ==
    /\ powPc = "shift"
    /\ powPc' = "while"
    /\ UNCHANGED <<base, exponent, exp, isNegative, result, x, powRet,
                   resultFrom, xFrom, notPow>>

\* line 132: exp >>= 1n
PowShift ==
    /\ powPc = "shift"
    /\ exp' = exp \div 2
    /\ powPc' = "while"
    /\ UNCHANGED <<base, exponent, isNegative, result, x, powRet,
                   resultFrom, xFrom, notPow>>

\* line 135: return isNegative ? result.conjugate() : result
PowReturn ==
    /\ powPc = "return"
    /\ powRet' = IF isNegative THEN conjugate(result) ELSE result
    /\ powPc' = "done"
    /\ UNCHANGED <<base, exponent, exp, isNegative, result, x,
                   resultFrom, xFrom, notPow>>

-----------------------------------------------------------------------------
(* public/Trig.js: generateCoefficients *)

Min(a, b) == IF a < b THEN a ELSE b

\* mutant of hardcodedCoeffs: from index 3 on the table holds the general
\* pattern of the loop at the same index
hardcodedCoeffs_GeneralPattern ==
    [t \in 1..24 |->
        LET c == t - 1
            sign == IF ((c + 1) \div 2) % 2 = 0 THEN 1 ELSE -1
        IN  IF c = 0 THEN Complex(1, 1, 1, 1)
            ELSE IF c = 1 THEN Complex(-2, 1, 1, 1)
            ELSE IF c = 2 THEN Complex(1, 1, 3, 1)
            ELSE IF c % 2 # 0 THEN Complex(0, 1, sign * c, 1)
            ELSE Complex(2 * (IF (c \div 2) % 2 = 0 THEN 1 ELSE -1), 1, 0, 1)]

\* lines 7-32
hardcodedCoeffs ==
    << Complex(1, 1, 1, 1),   Complex(-2, 1, 1, 1),  Complex(1, 1, 3, 1),
       Complex(-2, 1, 0, 1),  Complex(0, 1, -5, 1),  Complex(2, 1, 0, 1),
       Complex(0, 1, 7, 1),   Complex(-2, 1, 0, 1),  Complex(0, 1, -9, 1),
       Complex(2, 1, 0, 1),   Complex(0, 1, 11, 1),  Complex(-2, 1, 0, 1),
       Complex(0, 1, -13, 1), Complex(2, 1, 0, 1),   Complex(0, 1, 15, 1),
       Complex(-2, 1, 0, 1),  Complex(0, 1, -17, 1), Complex(2, 1, 0, 1),
       Complex(0, 1, 19, 1),  Complex(-2, 1, 0, 1),  Complex(0, 1, -21, 1),
       Complex(2, 1, 0, 1),   Complex(0, 1, 23, 1),  Complex(-2, 1, 0, 1) >>

\* mutant of loopCoefficient: the sign of the odd-index coefficients is taken
\* from the parity of (c - 1) / 2 instead of (c + 1) / 2
loopCoefficient_WrongPower(c, n) ==
    IF c = 0 THEN Complex(1, 1, 0, 1)
    ELSE IF c % 2 # 0
    THEN LET power == (c - 1) \div 2
             sign == IF power % 2 = 0 THEN 1 ELSE -1
             imagValue == sign * c * n
         IN  Complex(0, 1, imagValue, 1)
    ELSE LET power == c \div 2
             sign == IF power % 2 = 0 THEN 1 ELSE -1
             realValue == 2 * sign
         IN  Complex(realValue, 1, 0, 1)

\* mutant of loopCoefficient: the odd-index coefficient loses its factor c
loopCoefficient_NoIndexFactor(c, n) ==
    IF c = 0 THEN Complex(1, 1, 0, 1)
    ELSE IF c % 2 # 0
    THEN LET power == (c + 1) \div 2
             sign == IF power % 2 = 0 THEN 1 ELSE -1
             imagValue == sign * n
         IN  Complex(0, 1, imagValue, 1)
    ELSE LET power == c \div 2
             sign == IF power % 2 = 0 THEN 1 ELSE -1
             realValue == 2 * sign
         IN  Complex(realValue, 1, 0, 1)

\* mutant of loopCoefficient: the odd-index coefficient takes the factor
\* c - 1, so that the coefficient of index 1 is zero
loopCoefficient_IndexOffByOne(c, n) ==
    IF c = 0 THEN Complex(1, 1, 0, 1)
    ELSE IF c % 2 # 0
    THEN LET power == (c + 1) \div 2
             sign == IF power % 2 = 0 THEN 1 ELSE -1
             imagValue == sign * (c - 1) * n
         IN  Complex(0, 1, imagValue, 1)
    ELSE LET power == c \div 2
             sign == IF power % 2 = 0 THEN 1 ELSE -1
             realValue == 2 * sign
         IN  Complex(realValue, 1, 0, 1)

\* the body of the for loop, lines 39-55: the coefficient pushed for index c
loopCoefficient(c, n) ==
    IF c = 0 THEN Complex(1, 1, 0, 1)
    ELSE IF c % 2 # 0
    THEN LET power == (c + 1) \div 2
             sign == IF power % 2 = 0 THEN 1 ELSE -1
             imagValue == sign * c * n
         IN  Complex(0, 1, imagValue, 1)
    ELSE LET power == c \div 2
             sign == IF power % 2 = 0 THEN 1 ELSE -1
             realValue == 2 * sign
         IN  Complex(realValue, 1, 0, 1)

\* n is an integer-valued number and k >= 0
generateCoefficients(n, k) ==
    IF n = 1
    THEN SubSeq(hardcodedCoeffs, 1, Min(k, Len(hardcodedCoeffs)))
    ELSE [c \in 1..k |-> loopCoefficient(c - 1, n)]

GenIdle ==
    /\ genIn = NoCall
    /\ genOut = << >>

GenerateCall ==
    /\ \E n \in -2..MaxGenQ, k \in 0..MaxGenK :
           /\ genIn' = [called |-> TRUE, n |-> n, k |-> k]
           /\ genOut' = generateCoefficients(n, k)
    /\ UNCHANGED notGen

-----------------------------------------------------------------------------
(* public/Trig.js: computeAllConvergents *)

baseLimit == 2 ^ LimitBits

\* lines 64-67
limitFor(num) ==
    LET nAbs == IF num < 0 THEN -num ELSE num
        nSq == nAbs * nAbs
    IN  IF nSq > 0 THEN baseLimit * nSq ELSE baseLimit

\* mutant of recurrence: the two previous terms are swapped
recurrence_Swapped(a, prev, prev_prev) == add(multiply(a, prev_prev), prev)

\* lines 84 and 86: a.multiply(prev).add(prev_prev)
recurrence(a, prev, prev_prev) == add(multiply(a, prev), prev_prev)

\* mutant of stoppingCriterion: the comparison is reversed
stoppingCriterion_Reversed(q_n, a_next, limit) ==
    LET qn_mag_sq == magnitudeSquaredRational(q_n)
        qn_mag_quat == multiplyRational(qn_mag_sq, qn_mag_sq)
        anext_mag_sq == magnitudeSquaredRational(a_next)
        product == multiplyRational(qn_mag_quat, anext_mag_sq)
    IN  product.n < limit * product.d

\* lines 95-103: |q_n|^4 * |a_next|^2 > LIMIT, by cross-multiplication
stoppingCriterion(q_n, a_next, limit) ==
    LET qn_mag_sq == magnitudeSquaredRational(q_n)
        qn_mag_quat == multiplyRational(qn_mag_sq, qn_mag_sq)
        anext_mag_sq == magnitudeSquaredRational(a_next)
        product == multiplyRational(qn_mag_quat, anext_mag_sq)
    IN  product.n > limit * product.d

CCIdle ==
    /\ coefficients = << >>
    /\ numerator = 1
    /\ LIMIT = 0
    /\ i = 0
    /\ p_prev_prev = ZERO
    /\ p_prev = ZERO
    /\ q_prev_prev = ZERO
    /\ q_prev = ZERO
    /\ convergents = << >>
    /\ mathLimitIndex = -1
    /\ ccPc = "off"
    /\ ccRet = NoCall

\* mutant of CCEnter: the single-coefficient return forgets the push
CCEnter_NoPush ==
    /\ ccPc = "start"
    /\ LIMIT' = limitFor(numerator)
    /\ mathLimitIndex' = -1
    /\ convergents' = << >>
    /\ IF Len(coefficients) = 0 \/ Len(coefficients) = 1
       THEN /\ ccRet' = [called |-> TRUE, convergents |-> << >>,
                         mathLimitIndex |-> -1]
            /\ ccPc' = "done"
            /\ UNCHANGED <<i, p_prev_prev, p_prev, q_prev_prev, q_prev>>
       ELSE /\ p_prev_prev' = ZERO
            /\ p_prev' = ONE
            /\ q_prev_prev' = ONE
            /\ q_prev' = ZERO
            /\ i' = 0
            /\ ccPc' = "loop"
            /\ UNCHANGED ccRet
    /\ UNCHANGED <<call, coefficients, numerator, expPc, expRet, notCF>>

\* lines 62-79: the limit, the two early returns, the seeds
CCEnter ==
    /\ ccPc = "start"
    /\ LIMIT' = limitFor(numerator)
    /\ mathLimitIndex' = -1
    /\ IF Len(coefficients) = 0
       THEN /\ convergents' = << >>
            /\ ccRet' = [called |-> TRUE, convergents |-> << >>,
                         mathLimitIndex |-> -1]
            /\ ccPc' = "done"
            /\ UNCHANGED <<i, p_prev_prev, p_prev, q_prev_prev, q_prev>>
       ELSE IF Len(coefficients) = 1
       THEN /\ convergents' = << coefficients[1] >>
            /\ ccRet' = [called |-> TRUE,
                         convergents |-> << coefficients[1] >>,
                         mathLimitIndex |-> -1]
            /\ ccPc' = "done"
            /\ UNCHANGED <<i, p_prev_prev, p_prev, q_prev_prev, q_prev>>
       ELSE /\ convergents' = << >>
            /\ p_prev_prev' = ZERO
            /\ p_prev' = ONE
            /\ q_prev_prev' = ONE
            /\ q_prev' = ZERO
            /\ i' = 0
            /\ ccPc' = "loop"
            /\ UNCHANGED ccRet
    /\ UNCHANGED <<call, coefficients, numerator, expPc, expRet, notCF>>

\* mutant of nextMathLimitIndex: a later index overwrites the recorded one
nextMathLimitIndex_Overwrites(q_n) ==
    IF i < Len(coefficients) - 1
       /\ stoppingCriterion(q_n, coefficients[i + 2], LIMIT)
    THEN i
    ELSE mathLimitIndex

\* mutant of nextMathLimitIndex: the index after the tested one is recorded
nextMathLimitIndex_OffByOne(q_n) ==
    IF mathLimitIndex = -1 /\ i < Len(coefficients) - 1
       /\ stoppingCriterion(q_n, coefficients[i + 2], LIMIT)
    THEN i + 1
    ELSE mathLimitIndex

\* lines 92-106: the value of mathLimitIndex after iteration i
\* (coefficients[i+1] of the source is coefficients[i + 2] of the sequence)
nextMathLimitIndex(q_n) ==
    IF mathLimitIndex = -1 /\ i < Len(coefficients) - 1
       /\ stoppingCriterion(q_n, coefficients[i + 2], LIMIT)
    THEN i
    ELSE mathLimitIndex

\* lines 81-112: one iteration of the for loop; p_n.divide(q_n) throws on a
\* zero q_n and the exception leaves the function
CCIter ==
    /\ ccPc = "loop"
    /\ i < Len(coefficients)
    /\ LET a == coefficients[i + 1]
           p_n == recurrence(a, p_prev, p_prev_prev)
           q_n == recurrence(a, q_prev, q_prev_prev)
       IN  IF DivideThrows(q_n)
           THEN /\ ccPc' = "thrown"
                /\ ccRet' = Thrown("Division by zero")
                /\ UNCHANGED <<i, p_prev_prev, p_prev, q_prev_prev, q_prev,
                               convergents, mathLimitIndex>>
           ELSE /\ convergents' = Append(convergents, divide(p_n, q_n))
                /\ mathLimitIndex' = nextMathLimitIndex(q_n)
                /\ p_prev_prev' = p_prev
                /\ p_prev' = p_n
                /\ q_prev_prev' = q_prev
                /\ q_prev' = q_n
                /\ i' = i + 1
                /\ UNCHANGED <<ccPc, ccRet>>
    /\ UNCHANGED <<call, coefficients, numerator, LIMIT, expPc, expRet, notCF>>

\* line 114
CCReturn ==
    /\ ccPc = "loop"
    /\ ~(i < Len(coefficients))
    /\ ccRet' = [called |-> TRUE, convergents |-> convergents,
                 mathLimitIndex |-> mathLimitIndex]
    /\ ccPc' = "done"
    /\ UNCHANGED <<call, coefficients, numerator, LIMIT, i, p_prev_prev,
                   p_prev, q_prev_prev, q_prev, convergents, mathLimitIndex,
                   expPc, expRet, notCF>>

-----------------------------------------------------------------------------
(* public/Trig.js: expWithConvergents *)

\* An angle argument: a value that is not a number, NaN, or a number; for a
\* number, whether it is 0 and the {n, d} that Utils.js toRational returns for
\* it (computed there in floating point; drawn here from the fractions in
\* lowest terms, n = 0 being what an angle below Number.EPSILON gives).
NotANumber == [kind |-> "notNumber", zero |-> FALSE,
               rational |-> [n |-> 0, d |-> 1]]
NaN == [kind |-> "NaN", zero |-> FALSE, rational |-> [n |-> 0, d |-> 1]]
Angle(zero, n, d) == [kind |-> "number", zero |-> zero,
                      rational |-> [n |-> n, d |-> d]]

toRational(angle) == angle.rational

\* the optional exactRational argument; null by default
Null == [given |-> FALSE, n |-> 0, d |-> 1]
ExactRational(n, d) == [given |-> TRUE, n |-> n, d |-> d]

\* lines 157-166
angleNumerator(c) ==
    IF c.exactRational.given THEN c.exactRational.n
    ELSE toRational(c.angle).n

angleDenominator(c) ==
    IF c.exactRational.given THEN c.exactRational.d
    ELSE toRational(c.angle).d

\* Math.ceil(Math.log2(v)) for an integer v >= 1
RECURSIVE ceilLog2From(_, _)
ceilLog2From(v, e) == IF 2 ^ e >= v THEN e ELSE ceilLog2From(v, e + 1)

ceilLog2(v) == ceilLog2From(v, 0)

ExpIdle ==
    /\ expPc = "off"
    /\ expRet = NoCall

\* mutant of ExpThrowInvalidAngle: isNaN is not tested, and NaN reaches
\* BigInt(rational.n) of line 164, which throws a RangeError
ExpThrowInvalidAngle_NoNaNTest ==
    /\ expPc = "start"
    /\ call.angle.kind # "number"
    /\ expPc' = "thrown"
    /\ expRet' = IF call.angle.kind = "NaN"
                 THEN Thrown("The number NaN cannot be converted to a BigInt")
                 ELSE Thrown("Angle must be a valid number.")
    /\ UNCHANGED <<call, ccVars, notCF>>

\* lines 140-142: the angle is not a number or is NaN
ExpThrowInvalidAngle ==
    /\ expPc = "start"
    /\ call.angle.kind # "number"
    /\ expPc' = "thrown"
    /\ expRet' = Thrown("Angle must be a valid number.")
    /\ UNCHANGED <<call, ccVars, notCF>>

\* mutant of ExpReturnOne: the zero angle is tested after the coefficients
\* have been generated
ExpReturnOne_AfterCoefficients ==
    /\ expPc = "start"
    /\ call.angle.kind = "number"
    /\ call.angle.zero
    /\ coefficients' = generateCoefficients(angleDenominator(call), call.terms)
    /\ expPc' = "done"
    /\ expRet' = [called |-> TRUE,
                  baseConvergents |-> << ONE >>,
                  finalConvergents |-> << ONE >>,
                  mathLimitIndex |-> -1,
                  iterationMetrics |-> [convergentIterations |-> 0,
                                        exponentIterations |-> 0,
                                        totalIterations |-> 0]]
    /\ UNCHANGED <<call, numerator, LIMIT, i, p_prev_prev, p_prev,
                   q_prev_prev, q_prev, convergents, mathLimitIndex, ccPc,
                   ccRet, notCF>>

\* lines 144-155: angle === 0
ExpReturnOne ==
    /\ expPc = "start"
    /\ call.angle.kind = "number"
    /\ call.angle.zero
    /\ expPc' = "done"
    /\ expRet' = [called |-> TRUE,
                  baseConvergents |-> << ONE >>,
                  finalConvergents |-> << ONE >>,
                  mathLimitIndex |-> -1,
                  iterationMetrics |-> [convergentIterations |-> 0,
                                        exponentIterations |-> 0,
                                        totalIterations |-> 0]]
    /\ UNCHANGED <<call, ccVars, notCF>>

\* lines 157-172: numerator and denominator, the coefficients, and the call
\* of computeAllConvergents
ExpComputeConvergents ==
    /\ expPc = "start"
    /\ call.angle.kind = "number"
    /\ ~call.angle.zero
    /\ numerator' = angleNumerator(call)
    /\ coefficients' = generateCoefficients(angleDenominator(call), call.terms)
    /\ ccPc' = "start"
    /\ expPc' = "computeAllConvergents"
    /\ UNCHANGED <<call, LIMIT, i, p_prev_prev, p_prev, q_prev_prev, q_prev,
                   convergents, mathLimitIndex, ccRet, expRet, notCF>>

\* mutant of ExpReturn: the convergents beyond mathLimitIndex are dropped
\* from both arrays
ExpReturn_DropsBeyondLimit ==
    /\ expPc = "computeAllConvergents"
    /\ ccPc = "done"
    /\ LET limitIndex == ccRet.mathLimitIndex
           convergentIterations ==
               IF limitIndex >= 0 THEN limitIndex + 1
               ELSE Len(ccRet.convergents)
           baseConvergents == SubSeq(ccRet.convergents, 1, convergentIterations)
           absNumerator == IF numerator < 0 THEN -numerator ELSE numerator
           exponentIterations ==
               IF absNumerator = 0 THEN 0 ELSE ceilLog2(absNumerator)
           totalIterations == convergentIterations + exponentIterations
           finalConvergents ==
               [j \in 1..Len(baseConvergents) |->
                   powComplexStable(baseConvergents[j],
                                    Exponent("bigint", numerator))]
       IN  expRet' = [called |-> TRUE,
                      baseConvergents |-> baseConvergents,
                      finalConvergents |-> finalConvergents,
                      mathLimitIndex |-> limitIndex,
                      iterationMetrics |->
                          [convergentIterations |-> convergentIterations,
                           exponentIterations |-> exponentIterations,
                           totalIterations |-> totalIterations]]
    /\ expPc' = "done"
    /\ UNCHANGED <<call, ccVars, notCF>>

\* lines 172-192: the metrics, the final convergents, the return value
ExpReturn ==
    /\ expPc = "computeAllConvergents"
    /\ ccPc = "done"
    /\ LET baseConvergents == ccRet.convergents
           limitIndex == ccRet.mathLimitIndex
           convergentIterations ==
               IF limitIndex >= 0 THEN limitIndex + 1
               ELSE Len(baseConvergents)
           absNumerator == IF numerator < 0 THEN -numerator ELSE numerator
           exponentIterations ==
               IF absNumerator = 0 THEN 0 ELSE ceilLog2(absNumerator)
           totalIterations == convergentIterations + exponentIterations
           finalConvergents ==
               [j \in 1..Len(baseConvergents) |->
                   powComplexStable(baseConvergents[j],
                                    Exponent("bigint", numerator))]
       IN  expRet' = [called |-> TRUE,
                      baseConvergents |-> baseConvergents,
                      finalConvergents |-> finalConvergents,
                      mathLimitIndex |-> limitIndex,
                      iterationMetrics |->
                          [convergentIterations |-> convergentIterations,
                           exponentIterations |-> exponentIterations,
                           totalIterations |-> totalIterations]]
    /\ expPc' = "done"
    /\ UNCHANGED <<call, ccVars, notCF>>

\* the exception of computeAllConvergents leaves expWithConvergents too
ExpPropagate ==
    /\ expPc = "computeAllConvergents"
    /\ ccPc = "thrown"
    /\ expPc' = "thrown"
    /\ expRet' = ccRet
    /\ UNCHANGED <<call, ccVars, notCF>>

-----------------------------------------------------------------------------
(* The calls made on the convergent engine *)

\* coefficients handed to computeAllConvergents directly, besides the
\* generated ones: every sequence of at most three of these
DirectCoefficients ==
    { Complex(0, 1, 0, 1), Complex(1, 1, 0, 1), Complex(-2, 1, 1, 1),
      Complex(2, 1, 2, 1), Complex(0, 1, -1, 1), Complex(1, 2, 0, 1) }

DirectSequences ==
    { << >> }
    \cup { <<a>> : a \in DirectCoefficients }
    \cup { <<a, b>> : a \in DirectCoefficients, b \in DirectCoefficients }
    \cup { <<a, b, c>> : a \in DirectCoefficients, b \in DirectCoefficients,
                         c \in DirectCoefficients }
    \cup { generateCoefficients(q, k) : q \in 1..MaxQ, k \in 0..MaxTerms }

Numerators == -MaxNumerator..MaxNumerator

DirectCalls ==
    { [fn |-> "computeAllConvergents", coefficients |-> cs, numerator |-> n] :
        cs \in DirectSequences, n \in Numerators }

ExpAngles ==
    { NotANumber, NaN, Angle(TRUE, 0, 1) }
    \cup { a \in { Angle(FALSE, n, d) : n \in Numerators, d \in 1..MaxQ } :
               gcd(a.rational.n, a.rational.d) = 1 }

\* a caller may pass any {n, d}, a zero d included
ExpExactRationals ==
    { Null } \cup { ExactRational(n, d) : n \in {-1, 0, 1}, d \in {0, 1, 2} }

\* A positive numerator raises every base convergent to it; the convergents
\* from index 2 on have denominators whose powers in normalizeComplex leave
\* TLC's integer range, so positive numerators are run with at most 2 terms,
\* except the angle 1/2, whose powers stay in range up to 4 terms.
ExpCalls ==
    { c \in [fn : {"expWithConvergents"}, angle : ExpAngles,
             terms : 0..MaxTerms, exactRational : ExpExactRationals] :
        (c.angle.kind = "number" /\ ~c.angle.zero /\ angleNumerator(c) > 0)
            => \/ c.terms <= 2
               \/ /\ angleNumerator(c) = 1
                  /\ angleDenominator(c) = 2
                  /\ c.terms <= 4 }

CFIdle ==
    /\ call = NoCall
    /\ CCIdle
    /\ ExpIdle

CFInit ==
    \/ /\ call \in DirectCalls
       /\ coefficients = call.coefficients
       /\ numerator = call.numerator
       /\ LIMIT = 0
       /\ i = 0
       /\ p_prev_prev = ZERO
       /\ p_prev = ZERO
       /\ q_prev_prev = ZERO
       /\ q_prev = ZERO
       /\ convergents = << >>
       /\ mathLimitIndex = -1
       /\ ccPc = "start"
       /\ ccRet = NoCall
       /\ ExpIdle
    \/ /\ call \in ExpCalls
       /\ CCIdle
       /\ expPc = "start"
       /\ expRet = NoCall

-----------------------------------------------------------------------------
(* public/Trig.js: exp, cos, sin *)

\* the double that Number(n) / Number(d) evaluates to
Float(n, d) == [float |-> << n, d >>]

\* public/RationalBigInt.js toFloating; n >> shift is the floor of n / 2^shift
toFloating(r) ==
    IF r.n = 0 THEN Float(0, 1)
    ELSE LET nAbs == IF r.n < 0 THEN -r.n ELSE r.n
             nBits == BitLength(nAbs)
             dBits == BitLength(r.d)
             maxBits == IF nBits > dBits THEN nBits ELSE dBits
         IN  IF maxBits > FloatBitLimit
             THEN LET shift == maxBits - FloatKeptBits
                  IN  Float(r.n \div (2 ^ shift), r.d \div (2 ^ shift))
             ELSE Float(r.n, r.d)

\* Complex.toFloat
toFloat(z) == [re |-> toFloating(z.re), im |-> toFloating(z.im)]

\* the value of finalConvergents[finalConvergents.length - 1] on an empty
\* array
Undefined == [undefined |-> TRUE]

\* exp, cos and sin take (angle, terms) and pass no exactRational
TrigCalls ==
    { c \in [fn : {"exp", "cos", "sin"}, angle : ExpAngles,
             terms : 0..MaxTerms, exactRational : { Null }] :
        (c.angle.kind = "number" /\ ~c.angle.zero /\ angleNumerator(c) > 0)
            => c.terms <= 2 }

TrigIdle ==
    /\ trigPc = "off"
    /\ trigRet = NoCall

TrigInit ==
    /\ call \in TrigCalls
    /\ CCIdle
    /\ expPc = "start"
    /\ expRet = NoCall
    /\ trigPc = "called"
    /\ trigRet = NoCall

\* lines 197-198, 203-204, 209-210: the last final convergent, and for cos
\* and sin one part of its toFloat(); reading toFloat of undefined throws
TrigReturn ==
    /\ trigPc = "called"
    /\ expPc = "done"
    /\ LET finalConvergents == expRet.finalConvergents
           last == IF Len(finalConvergents) = 0 THEN Undefined
                   ELSE finalConvergents[Len(finalConvergents)]
       IN  IF call.fn = "exp"
           THEN /\ trigRet' = [called |-> TRUE, value |-> last]
                /\ trigPc' = "done"
           ELSE IF last = Undefined
           THEN /\ trigRet' = Thrown("Cannot read properties of undefined")
                /\ trigPc' = "thrown"
           ELSE /\ trigRet' = [called |-> TRUE,
                               value |-> IF call.fn = "cos"
                                         THEN toFloat(last).re
                                         ELSE toFloat(last).im]
                /\ trigPc' = "done"
    /\ UNCHANGED notTrig

\* an exception of expWithConvergents leaves exp, cos and sin too
TrigPropagate ==
    /\ trigPc = "called"
    /\ expPc = "thrown"
    /\ trigRet' = expRet
    /\ trigPc' = "thrown"
    /\ UNCHANGED notTrig

-----------------------------------------------------------------------------
(* Single calls of the rational, square-root and Complex operations *)

\* each behaviour makes one call, from the state in which none was made
OpIdle ==
    /\ opIn = NoCall
    /\ opOut = NoCall

\* the {n, d} objects handed to the rational operations
RationalArgs ==
    { [n |-> n, d |-> d] : n \in -MaxRatNum..MaxRatNum,
                           d \in (-MaxRatDen..MaxRatDen) \ {0} }

\* the Complex values handed to the Complex operations
ComplexArgs ==
    { Complex(reN, reD, imN, imD) :
        reN \in -MaxCxNum..MaxCxNum, reD \in 1..MaxCxDen,
        imN \in -MaxCxNum..MaxCxNum, imD \in 1..MaxCxDen }

\* new Complex(reN, reD, imN, imD), Complex.js lines 32-33: the exception of
\* either normalizeRational leaves the constructor
newComplex(reN, reD, imN, imD) ==
    IF reD = 0 THEN normalizeRational([n |-> reN, d |-> reD])
    ELSE IF imD = 0 THEN normalizeRational([n |-> imN, d |-> imD])
    ELSE Complex(reN, reD, imN, imD)

\* z.divide(c) with its throw, Complex.js lines 105-138
complexDivide(z, c) ==
    IF DivideThrows(c) THEN Thrown("Division by zero") ELSE divide(z, c)

NormalizeRationalCall ==
    /\ opIn = NoCall
    /\ \E n \in -MaxRatNum..MaxRatNum, d \in -MaxRatDen..MaxRatDen :
           /\ opIn' = [fn |-> "normalizeRational", n |-> n, d |-> d]
           /\ opOut' = normalizeRational([n |-> n, d |-> d])
    /\ UNCHANGED notOp

AddRationalCall ==
    /\ opIn = NoCall
    /\ \E a \in RationalArgs, b \in RationalArgs :
           /\ opIn' = [fn |-> "addRational", a |-> a, b |-> b]
           /\ opOut' = addRational(a, b)
    /\ UNCHANGED notOp

SubtractRationalCall ==
    /\ opIn = NoCall
    /\ \E a \in RationalArgs, b \in RationalArgs :
           /\ opIn' = [fn |-> "subtractRational", a |-> a, b |-> b]
           /\ opOut' = subtractRational(a, b)
    /\ UNCHANGED notOp

MultiplyRationalCall ==
    /\ opIn = NoCall
    /\ \E a \in RationalArgs, b \in RationalArgs :
           /\ opIn' = [fn |-> "multiplyRational", a |-> a, b |-> b]
           /\ opOut' = multiplyRational(a, b)
    /\ UNCHANGED notOp

DivideRationalCall ==
    /\ opIn = NoCall
    /\ \E a \in RationalArgs, b \in RationalArgs :
           /\ opIn' = [fn |-> "divideRational", a |-> a, b |-> b]
           /\ opOut' = divideRational(a, b)
    /\ UNCHANGED notOp

BigIntSqrtCall ==
    /\ opIn = NoCall
    /\ \E v \in -1..MaxSqrt :
           /\ opIn' = [fn |-> "bigIntSqrt", value |-> v]
           /\ opOut' = bigIntSqrt(v)
    /\ UNCHANGED notOp

ComplexConstructCall ==
    /\ opIn = NoCall
    /\ \E reN \in -MaxCxNum..MaxCxNum, reD \in -MaxCxDen..MaxCxDen,
          imN \in -MaxCxNum..MaxCxNum, imD \in -MaxCxDen..MaxCxDen :
           /\ opIn' = [fn |-> "Complex", reN |-> reN, reD |-> reD,
                       imN |-> imN, imD |-> imD]
           /\ opOut' = newComplex(reN, reD, imN, imD)
    /\ UNCHANGED notOp

ComplexMultiplyCall ==
    /\ opIn = NoCall
    /\ \E z \in ComplexArgs, c \in ComplexArgs :
           /\ opIn' = [fn |-> "multiply", z |-> z, c |-> c]
           /\ opOut' = multiply(z, c)
    /\ UNCHANGED notOp

ComplexDivideCall ==
    /\ opIn = NoCall
    /\ \E z \in ComplexArgs, c \in ComplexArgs :
           /\ opIn' = [fn |-> "divide", z |-> z, c |-> c]
           /\ opOut' = complexDivide(z, c)
    /\ UNCHANGED notOp

\* Complex.normalizeComplex applied to a Complex value
NormalizeComplexCall ==
    /\ opIn = NoCall
    /\ \E reN \in -MaxNormNum..MaxNormNum, reD \in 1..MaxNormDen,
          imN \in -MaxNormNum..MaxNormNum, imD \in 1..MaxNormDen :
           /\ opIn' = [fn |-> "normalizeComplex",
                       z |-> Complex(reN, reD, imN, imD)]
           /\ opOut' = normalizeComplex(Complex(reN, reD, imN, imD))
    /\ UNCHANGED notOp

\* toFloating applied to a canonical rational
ToFloatingCall ==
    /\ opIn = NoCall
    /\ \E n \in -MaxFloatNum..MaxFloatNum, d \in 1..MaxFloatDen :
           /\ gcd(n, d) = 1
           /\ opIn' = [fn |-> "toFloating", n |-> n, d |-> d]
           /\ opOut' = toFloating([n |-> n, d |-> d])
    /\ UNCHANGED notOp

-----------------------------------------------------------------------------
(* unnamed/part_001: the rate limiter over the KV store *)

Callers == 1..MaxCallers

\* key[3], Math.floor(Date.now() / windowMs): the window of the calls, and an
\* earlier window whose key was left behind without a TTL
zombieBucket == 1
currentBucket == 2
Buckets == {zombieBucket, currentBucket}

\* what the store holds under a key: nothing (versionstamp null, value
\* null, which unwrap turns into 0) or a KvU64 count
NoEntry == [versionstamp |-> "null", value |-> 0]
Entry(v) == [versionstamp |-> "set", value |-> v]

\* line 70-71: ip === "unknown" || ip === "local"
FailsOpen(c) == ip[c] \in {"unknown", "local"}

Resolved(v) == [called |-> TRUE, value |-> v]

RLIdle ==
    /\ kv = [b \in Buckets |-> NoEntry]
    /\ maxRequests = 20
    /\ ip = [c \in Callers |-> "unknown"]
    /\ rlPc = [c \in Callers |-> "off"]
    /\ rlEntry = [c \in Callers |-> NoEntry]
    /\ rlRet = [c \in Callers |-> NoCall]
    /\ prunePc = "off"
    /\ pruneEntries = {}

\* the calls are made in one window, in which no key exists yet; a key of an
\* earlier window may be left
RLInit ==
    /\ kv \in { [b \in Buckets |-> IF b = zombieBucket THEN z ELSE NoEntry] :
                  z \in {NoEntry, Entry(1)} }
    /\ maxRequests \in 0..MaxLimit
    /\ ip \in [Callers -> {"203.0.113.7", "unknown", "local"}]
    /\ rlPc = [c \in Callers |-> "start"]
    /\ rlEntry = [c \in Callers |-> NoEntry]
    /\ rlRet = [c \in Callers |-> NoCall]
    /\ prunePc = "off"
    /\ pruneEntries = {}

\* lines 70-72: Promise.resolve(true)
RLFailOpen(c) ==
    /\ rlPc[c] = "start"
    /\ FailsOpen(c)
    /\ rlRet' = [rlRet EXCEPT ![c] = Resolved(TRUE)]
    /\ rlPc' = [rlPc EXCEPT ![c] = "done"]
    /\ UNCHANGED <<kv, maxRequests, ip, rlEntry, prunePc, pruneEntries, notRL>>

\* mutant of RLCreate: the key is set without the check of its versionstamp
RLCreate_NoCheck(c) ==
    /\ rlPc[c] = "start"
    /\ ~FailsOpen(c)
    /\ kv' = [kv EXCEPT ![currentBucket] = Entry(1)]
    /\ rlPc' = [rlPc EXCEPT ![c] = "created"]
    /\ UNCHANGED <<maxRequests, ip, rlEntry, rlRet, prunePc, pruneEntries,
                   notRL>>

\* lines 73-80: the atomic check({key, versionstamp: null}).set(key, 1n),
\* committed by the store in one step
RLCreate(c) ==
    /\ rlPc[c] = "start"
    /\ ~FailsOpen(c)
    /\ IF kv[currentBucket] = NoEntry
       THEN /\ kv' = [kv EXCEPT ![currentBucket] = Entry(1)]
            /\ rlPc' = [rlPc EXCEPT ![c] = "created"]
       ELSE /\ rlPc' = [rlPc EXCEPT ![c] = "sum"]
            /\ UNCHANGED kv
    /\ UNCHANGED <<maxRequests, ip, rlEntry, rlRet, prunePc, pruneEntries,
                   notRL>>

\* lines 81-83: commit.ok; with Math.random() < 0.05 pruneZombies is
\* started; the promise resolves to 1 <= maxRequests
RLCreated(c) ==
    /\ rlPc[c] = "created"
    /\ \E lucky \in BOOLEAN :
           IF lucky
           THEN prunePc' = "list" /\ pruneEntries' = {}
           ELSE UNCHANGED <<prunePc, pruneEntries>>
    /\ rlRet' = [rlRet EXCEPT ![c] = Resolved(1 <= maxRequests)]
    /\ rlPc' = [rlPc EXCEPT ![c] = "done"]
    /\ UNCHANGED <<kv, maxRequests, ip, rlEntry, notRL>>

\* lines 84-86: the atomic sum(key, 1n), which starts a missing key at 0
RLSum(c) ==
    /\ rlPc[c] = "sum"
    /\ kv' = [kv EXCEPT ![currentBucket] = Entry(kv[currentBucket].value + 1)]
    /\ rlPc' = [rlPc EXCEPT ![c] = "get"]
    /\ UNCHANGED <<maxRequests, ip, rlEntry, rlRet, prunePc, pruneEntries,
                   notRL>>

\* line 87: kv.get(key)
RLGet(c) ==
    /\ rlPc[c] = "get"
    /\ rlEntry' = [rlEntry EXCEPT ![c] = kv[currentBucket]]
    /\ rlPc' = [rlPc EXCEPT ![c] = "decide"]
    /\ UNCHANGED <<kv, maxRequests, ip, rlRet, prunePc, pruneEntries, notRL>>

\* line 88: unwrap(entry.value) <= maxRequests
RLDecide(c) ==
    /\ rlPc[c] = "decide"
    /\ rlRet' = [rlRet EXCEPT ![c] = Resolved(rlEntry[c].value <= maxRequests)]
    /\ rlPc' = [rlPc EXCEPT ![c] = "done"]
    /\ UNCHANGED <<kv, maxRequests, ip, rlEntry, prunePc, pruneEntries, notRL>>

\* line 50: kv.list({prefix: ["rate_limit", endpoint, ip]})
PruneList ==
    /\ prunePc = "list"
    /\ pruneEntries' = { b \in Buckets : kv[b] # NoEntry }
    /\ prunePc' = "listed"
    /\ UNCHANGED <<kv, maxRequests, ip, rlPc, rlEntry, rlRet, notRL>>

\* lines 51-57: with more than one entry, the keys of the other windows are
\* deleted in one atomic commit
PruneCommit ==
    /\ prunePc = "listed"
    /\ IF Cardinality(pruneEntries) <= 1
       THEN UNCHANGED kv
       ELSE kv' = [b \in Buckets |->
                      IF b \in pruneEntries /\ b # currentBucket
                      THEN NoEntry ELSE kv[b]]
    /\ prunePc' = "done"
    /\ UNCHANGED <<maxRequests, ip, rlPc, rlEntry, rlRet, pruneEntries, notRL>>

-----------------------------------------------------------------------------
(* Specifications *)

InitFrac == FracIdle /\ PowIdle /\ GenIdle /\ CFIdle /\ TrigIdle /\ OpIdle /\ RLIdle
NextFrac == ApproxFracCall
SpecFrac == InitFrac /\ [][NextFrac]_vars

InitGen == FracIdle /\ PowIdle /\ GenIdle /\ CFIdle /\ TrigIdle /\ OpIdle /\ RLIdle
NextGen == GenerateCall
SpecGen == InitGen /\ [][NextGen]_vars

InitCF ==
    /\ FracIdle /\ PowIdle /\ GenIdle /\ OpIdle /\ RLIdle
    /\ \/ CFInit /\ TrigIdle
       \/ TrigInit
NextCF ==
    \/ CCEnter
    \/ CCIter
    \/ CCReturn
    \/ ExpThrowInvalidAngle
    \/ ExpReturnOne
    \/ ExpComputeConvergents
    \/ ExpReturn
    \/ ExpPropagate
    \/ TrigReturn
    \/ TrigPropagate
SpecCF == InitCF /\ [][NextCF]_vars

InitOp == FracIdle /\ PowIdle /\ GenIdle /\ CFIdle /\ TrigIdle /\ OpIdle /\ RLIdle
NextOp ==
    \/ NormalizeRationalCall
    \/ AddRationalCall
    \/ SubtractRationalCall
    \/ MultiplyRationalCall
    \/ DivideRationalCall
    \/ BigIntSqrtCall
    \/ ComplexConstructCall
    \/ ComplexMultiplyCall
    \/ ComplexDivideCall
    \/ ToFloatingCall
    \/ NormalizeComplexCall
SpecOp == InitOp /\ [][NextOp]_vars

InitPow == FracIdle /\ PowInit /\ GenIdle /\ CFIdle /\ TrigIdle /\ OpIdle /\ RLIdle
NextPow ==
    \/ PowEnter
    \/ PowWhile
    \/ PowMultiplyResult
    \/ PowNormalizeResult
    \/ PowSquare
    \/ PowNormalizeX
    \/ PowShift
    \/ PowReturn
SpecPow == InitPow /\ [][NextPow]_vars

\* powComplexStable is synchronous code: the statement control has reached
\* runs, and control moves to another statement, until the function returns
PowLabels ==
    {"start", "while", "if", "normalizeResult", "square", "normalizeX",
     "shift", "return", "done"}

PowAdvance ==
    /\ powPc \in PowLabels \ {"done"}
    /\ powPc' \in PowLabels
    /\ powPc' # powPc

SpecPowFair == SpecPow /\ WF_powPc(PowAdvance)

\* the calls of checkRateLimit run concurrently: the store commits their
\* operations, and their callbacks run, in any order
InitRL ==
    /\ FracIdle /\ PowIdle /\ GenIdle /\ CFIdle /\ TrigIdle /\ OpIdle
    /\ RLInit
NextRL ==
    \/ \E c \in Callers : RLFailOpen(c)
    \/ \E c \in Callers : RLCreate(c)
    \/ \E c \in Callers : RLCreated(c)
    \/ \E c \in Callers : RLSum(c)
    \/ \E c \in Callers : RLGet(c)
    \/ \E c \in Callers : RLDecide(c)
    \/ PruneList
    \/ PruneCommit
SpecRL == InitRL /\ [][NextRL]_vars

\* powComplexStable and the convergent engine, each behaviour running one
InitEngine == InitPow \/ InitCF
NextEngine == NextPow \/ NextCF
SpecEngine == InitEngine /\ [][NextEngine]_vars

-----------------------------------------------------------------------------
(* Claims *)

\* C1: powComplexStable(z, -n) returns conjugate(powComplexStable(z, n)) for
\* every base z and positive integer n, whether the exponent is passed as a
\* number or as a BigInt.
C1_NegativeExponentIsConjugate ==
    (powPc = "done" /\ exponent.val < 0) =>
        powRet = conjugate(powComplexStable(base,
                               Exponent(exponent.type, -exponent.val)))

\* C2: after powComplexStable(z, n) with n >= 1 the denominators of the
\* result's real and imaginary parts are both at most MAX_DEN.
C2_ResultDenominatorsWithinMaxDen ==
    (powPc = "done" /\ exponent.val >= 1) =>
        (powRet.re.d <= MAX_DEN /\ powRet.im.d <= MAX_DEN)

\* C3: in powComplexStable every product (multiply into result, squaring of
\* x) is renormalized by the very next statement, before it is multiplied
\* again, carried into the next iteration or returned.
C3_EveryProductRenormalized ==
    /\ [](resultFrom = "multiply" => powPc = "normalizeResult")
    /\ [](xFrom = "multiply" => powPc = "normalizeX")
    /\ [][/\ resultFrom = "multiply" =>
                (result' = normalizeComplex(result) /\ x' = x)
          /\ xFrom = "multiply" =>
                (x' = normalizeComplex(x) /\ result' = result)]_vars

\* C3 witness: a squared x has been renormalized and multiplied into result,
\* and that product has been renormalized, in a later iteration.
C3_Witness ==
    /\ powPc = "square"
    /\ resultFrom = "normalizeComplex"
    /\ xFrom = "normalizeComplex"
    /\ result # x

\* C4: approxFrac returns the last continued-fraction pair before the
\* denominator would exceed maxDenominator, for negative num too: the
\* magnitude of the returned denominator never exceeds maxDenominator.
C4_DenominatorWithinCap ==
    afIn.called => Abs(afOut.d) <= afIn.maxDen

-----------------------------------------------------------------------------
(* Reference continuants, written from the recurrence alone: a value is a
   triple <<re, im, den>> standing for (re + i*im) / den with den > 0. *)

G(c) == << c.re.n * c.im.d, c.im.n * c.re.d, c.re.d * c.im.d >>

GAdd(u, v) == << u[1] * v[3] + v[1] * u[3], u[2] * v[3] + v[2] * u[3],
                 u[3] * v[3] >>

GMul(u, v) == << u[1] * v[1] - u[2] * v[2], u[1] * v[2] + u[2] * v[1],
                 u[3] * v[3] >>

GNormSq(u) == u[1] * u[1] + u[2] * u[2]

\* p_j and q_j for j >= -2, with cs[j + 1] standing for a_j
RECURSIVE RefP(_, _)
RefP(cs, j) ==
    IF j = -2 THEN << 0, 0, 1 >>
    ELSE IF j = -1 THEN << 1, 0, 1 >>
    ELSE GAdd(GMul(G(cs[j + 1]), RefP(cs, j - 1)), RefP(cs, j - 2))

RECURSIVE RefQ(_, _)
RefQ(cs, j) ==
    IF j = -2 THEN << 1, 0, 1 >>
    ELSE IF j = -1 THEN << 0, 0, 1 >>
    ELSE GAdd(GMul(G(cs[j + 1]), RefQ(cs, j - 1)), RefQ(cs, j - 2))

\* z = p / q for a Complex z and reference values p and q # 0, part by part:
\* p / q = q.den * (p * conj(q)) / (p.den * |q|^2)
EqualsQuotient(z, p, q) ==
    /\ z.re.n * p[3] * GNormSq(q) = z.re.d * q[3] * (p[1] * q[1] + p[2] * q[2])
    /\ z.im.n * p[3] * GNormSq(q) = z.im.d * q[3] * (p[2] * q[1] - p[1] * q[2])

\* |q_j|^4 * |a_{j+1}|^2 > limit, for 0 <= j <= Len(cs) - 2
RefCriterion(cs, j, limit) ==
    LET q == RefQ(cs, j)
        a == G(cs[j + 2])
    IN  GNormSq(q) * GNormSq(q) * GNormSq(a)
            > limit * q[3] * q[3] * q[3] * q[3] * a[3] * a[3]

\* the smallest index below upTo at which the criterion holds, or -1
RefFirstIndex(cs, upTo, limit) ==
    LET hits == { j \in 0..(upTo - 1) : RefCriterion(cs, j, limit) }
    IN  IF hits = {} THEN -1
        ELSE CHOOSE j \in hits : \A h \in hits : j <= h

\* the number of indices whose test the loop has made after i iterations
Tested == IF i < Len(coefficients) - 1 THEN i ELSE Len(coefficients) - 1

IsGenerated ==
    \E q \in 1..MaxQ, k \in 0..MaxTerms :
        coefficients = generateCoefficients(q, k)

-----------------------------------------------------------------------------
(* Claims C5 - C10 *)

\* C5: computeAllConvergents returns one convergent per coefficient, each
\* equal to p_i / q_i of the continuant recurrence with seeds p_{-2} = 0,
\* p_{-1} = 1, q_{-2} = 1, q_{-1} = 0; the first convergent is the first
\* coefficient; nothing of this depends on the numerator.
C5_ConvergentsAreContinuantQuotients ==
    /\ ccPc \in {"loop", "done", "thrown"} =>
           \A j \in 1..Len(convergents) :
               EqualsQuotient(convergents[j], RefP(coefficients, j - 1),
                              RefQ(coefficients, j - 1))
    /\ (ccPc = "done" /\ Len(coefficients) >= 1) =>
           /\ ccRet.convergents = convergents
           /\ Len(ccRet.convergents) = Len(coefficients)
           /\ ccRet.convergents[1] = coefficients[1]

C5_Witness ==
    /\ ccPc = "done"
    /\ numerator = -2
    /\ coefficients = << Complex(-2, 1, 1, 1), Complex(2, 1, 2, 1),
                         Complex(0, 1, -1, 1) >>
    /\ Len(ccRet.convergents) = 3

C7_CriterionMonotone ==
    (ccPc = "loop" /\ IsGenerated /\ i >= 1 /\ i <= Len(coefficients) - 1
        /\ mathLimitIndex # -1 /\ mathLimitIndex < i - 1) =>
        /\ stoppingCriterion(q_prev, coefficients[i + 1], LIMIT)
        /\ stoppingCriterion(q_prev, coefficients[i + 1],
                             baseLimit * numerator * numerator)

C7_Witness ==
    /\ ccPc = "loop"
    /\ IsGenerated
    /\ numerator = 2
    /\ i = 3
    /\ Len(coefficients) = 4
    /\ mathLimitIndex = 1
    /\ stoppingCriterion(q_prev, coefficients[4], LIMIT)

\* C8: the mathLimitIndex that computeAllConvergents and expWithConvergents
\* return is -1 or an index into the returned convergents, and never the
\* last one: it lies in 0..k-2 for k coefficients.
C8_LimitIndexInRange ==
    /\ ccPc = "done" =>
           \/ ccRet.mathLimitIndex = -1
           \/ /\ ccRet.mathLimitIndex \in 0..(Len(coefficients) - 2)
              /\ ccRet.mathLimitIndex + 1 \in DOMAIN ccRet.convergents
    /\ expPc = "done" =>
           \/ expRet.mathLimitIndex = -1
           \/ /\ expRet.mathLimitIndex \in 0..(call.terms - 2)
              /\ expRet.mathLimitIndex + 1 \in DOMAIN expRet.baseConvergents
              /\ expRet.mathLimitIndex + 1 \in DOMAIN expRet.finalConvergents

C8_Witness ==
    /\ expPc = "done"
    /\ call.terms = 4
    /\ expRet.mathLimitIndex = 1
    /\ ccRet.mathLimitIndex = 1

\* C9: on no coefficients computeAllConvergents returns no convergents and
\* mathLimitIndex -1; on one coefficient it returns that coefficient as the
\* only convergent and mathLimitIndex -1, whatever the numerator.
C9_EmptyAndSingleCoefficient ==
    /\ (ccPc = "done" /\ Len(coefficients) = 0) =>
           (ccRet.convergents = << >> /\ ccRet.mathLimitIndex = -1)
    /\ (ccPc = "done" /\ Len(coefficients) = 1) =>
           (ccRet.convergents = << coefficients[1] >>
            /\ ccRet.mathLimitIndex = -1)

C9_Witness ==
    /\ ccPc = "done"
    /\ numerator = -2
    /\ coefficients = << Complex(2, 1, 2, 1) >>
    /\ ccRet.convergents = << Complex(2, 1, 2, 1) >>

-----------------------------------------------------------------------------
(* Claims C11 - C13 *)

\* the Gaussian integer re + i*im as a Complex, written out
Cx(re, im) == [re |-> [n |-> re, d |-> 1], im |-> [n |-> im, d |-> 1]]

C12_TableFollowsGeneralFormula ==
    (genIn.called /\ genIn.n = 1) =>
        \A c \in 0..(Len(genOut) - 1) :
            genOut[c + 1] =
                IF c = 0 THEN Cx(1, 1)
                ELSE IF c = 1 THEN Cx(-2, 1)
                ELSE IF c = 2 THEN Cx(1, 3)
                ELSE IF c % 2 = 1 THEN Cx(0, c * (-1) ^ ((c + 1) \div 2))
                ELSE Cx(2 * (-1) ^ (c \div 2), 0)

\* C12 amended: for q = 1 the coefficients are a_0 = 1+i, a_1 = -2+i,
\* a_2 = 1+3i and, for 3 <= c < 24, the table holds the real coefficient
\* 2*(-1)^((c-1)/2) at odd c and the imaginary coefficient
\* i*(c+1)*(-1)^(c/2+1) at even c (a_3 = -2, a_4 = -5i, a_5 = 2, a_6 = 7i).
C12_TableIsShiftedPattern ==
    (genIn.called /\ genIn.n = 1) =>
        \A c \in 0..(Len(genOut) - 1) :
            genOut[c + 1] =
                IF c = 0 THEN Cx(1, 1)
                ELSE IF c = 1 THEN Cx(-2, 1)
                ELSE IF c = 2 THEN Cx(1, 3)
                ELSE IF c % 2 = 1 THEN Cx(2 * (-1) ^ ((c - 1) \div 2), 0)
                ELSE Cx(0, (c + 1) * (-1) ^ (c \div 2 + 1))

C12_Witness ==
    /\ genIn.called
    /\ genIn.n = 1
    /\ genIn.k = 24
    /\ Len(genOut) = 24
    /\ genOut[4] = Cx(-2, 0)
    /\ genOut[5] = Cx(0, -5)
    /\ genOut[24] = Cx(-2, 0)

\* C13: generateCoefficients(q, k) returns exactly k coefficients, indexed
\* 0..k-1, for every denominator q >= 1, q = 1 included, and every k >= 0,
\* also for k above 24.
C13_ExactlyKCoefficients ==
    (genIn.called /\ genIn.n >= 1) =>
        (Len(genOut) = genIn.k /\ DOMAIN genOut = 1..genIn.k)

-----------------------------------------------------------------------------
(* Claims C14 - C18 *)

OpIs(f) == opIn # NoCall /\ opIn.fn = f

IsThrown(v) == "error" \in DOMAIN v

\* the greatest common divisor of a >= 0 and b > 0, from its definition
GreatestCommonDivisor(a, b) ==
    CHOOSE g \in 1..b :
        /\ a % g = 0 /\ b % g = 0
        /\ \A h \in 1..b : (a % h = 0 /\ b % h = 0) => h <= g

Canonical(r) ==
    /\ r.d > 0
    /\ GreatestCommonDivisor(IF r.n < 0 THEN -r.n ELSE r.n, r.d) = 1
    /\ r.n = 0 => r.d = 1

\* n / d, d # 0, in lowest terms over a positive denominator
Reduced(n, d) ==
    LET s == IF d < 0 THEN -1 ELSE 1
        g == GreatestCommonDivisor(s * n * (IF s * n < 0 THEN -1 ELSE 1), s * d)
    IN  [n |-> (s * n) \div g, d |-> (s * d) \div g]

\* C14: for d # 0 normalizeRational returns the same value with a positive
\* denominator, in lowest terms, zero as 0/1, and normalizing the result
\* again changes nothing; every result of the four rational operations and
\* every component of a constructed Complex is in that form.
C14_ResultsAreCanonical ==
    /\ (OpIs("normalizeRational") /\ opIn.d # 0) =>
           /\ Canonical(opOut)
           /\ opOut.n * opIn.d = opIn.n * opOut.d
           /\ normalizeRational(opOut) = opOut
    /\ ((OpIs("addRational") \/ OpIs("subtractRational")
            \/ OpIs("multiplyRational") \/ OpIs("divideRational"))
          /\ ~IsThrown(opOut)) => Canonical(opOut)
    /\ ((OpIs("Complex") \/ OpIs("multiply") \/ OpIs("divide"))
          /\ ~IsThrown(opOut)) => (Canonical(opOut.re) /\ Canonical(opOut.im))

C14_Witness ==
    /\ OpIs("normalizeRational")
    /\ opIn.n = 2
    /\ opIn.d = -2
    /\ opOut = [n |-> -1, d |-> 1]

\* C15: on canonical a and b the four operations return the reduced form of
\* (a.n*b.d + b.n*a.d)/(a.d*b.d), (a.n*b.d - b.n*a.d)/(a.d*b.d),
\* (a.n*b.n)/(a.d*b.d) and, for b # 0, (a.n*b.d)/(a.d*b.n) over a positive
\* denominator; for 1/2 and 1/3 they return 5/6, 1/6, 1/6 and 3/2.
C15_RationalOperations ==
    LET a == opIn.a
        b == opIn.b
        half == [n |-> 1, d |-> 2]
        third == [n |-> 1, d |-> 3]
    IN  /\ (OpIs("addRational") /\ Canonical(a) /\ Canonical(b)) =>
               /\ opOut = Reduced(a.n * b.d + b.n * a.d, a.d * b.d)
               /\ (a = half /\ b = third) => opOut = [n |-> 5, d |-> 6]
        /\ (OpIs("subtractRational") /\ Canonical(a) /\ Canonical(b)) =>
               /\ opOut = Reduced(a.n * b.d - b.n * a.d, a.d * b.d)
               /\ (a = half /\ b = third) => opOut = [n |-> 1, d |-> 6]
        /\ (OpIs("multiplyRational") /\ Canonical(a) /\ Canonical(b)) =>
               /\ opOut = Reduced(a.n * b.n, a.d * b.d)
               /\ (a = half /\ b = third) => opOut = [n |-> 1, d |-> 6]
        /\ (OpIs("divideRational") /\ Canonical(a) /\ Canonical(b)
              /\ b.n # 0) =>
               /\ opOut = Reduced(a.n * b.d, a.d * b.n)
               /\ opOut.d > 0
               /\ (a = half /\ b = third) => opOut = [n |-> 3, d |-> 2]

C15_Witness ==
    /\ OpIs("divideRational")
    /\ opIn.a = [n |-> 1, d |-> 2]
    /\ opIn.b = [n |-> -1, d |-> 3]
    /\ opOut = [n |-> -3, d |-> 2]

\* C16: normalizeRational and the Complex constructor on a zero denominator,
\* divideRational on a divisor with numerator 0 and Complex.divide on a
\* divisor of squared magnitude zero raise a division-by-zero error and
\* return no value.
C16_ZeroDivisorIsAnError ==
    LET DivisionByZero(v) ==
            /\ IsThrown(v)
            /\ v.error \in {"Division by zero",
                            "Division by zero: denominator cannot be zero"}
    IN  /\ (OpIs("normalizeRational") /\ opIn.d = 0) => DivisionByZero(opOut)
        /\ (OpIs("Complex") /\ (opIn.reD = 0 \/ opIn.imD = 0)) =>
               DivisionByZero(opOut)
        /\ (OpIs("divideRational") /\ opIn.b.n = 0) => DivisionByZero(opOut)
        /\ (OpIs("divide") /\ opIn.c.re.n = 0 /\ opIn.c.im.n = 0) =>
               DivisionByZero(opOut)

C16_Witness ==
    /\ OpIs("normalizeRational")
    /\ opIn.n = 0
    /\ opIn.d = 0
    /\ IsThrown(opOut)

\* C17: for v >= 0 bigIntSqrt returns the floor of the square root: r with
\* r*r <= v < (r+1)*(r+1); so bigIntSqrt(n*n) = n, and v < 2 is returned as
\* it is.
C17_FloorSquareRoot ==
    (OpIs("bigIntSqrt") /\ opIn.value >= 0) =>
        /\ opOut \in 0..opIn.value
        /\ opOut * opOut <= opIn.value
        /\ opIn.value < (opOut + 1) * (opOut + 1)
        /\ \A n \in 0..opIn.value : n * n = opIn.value => opOut = n
        /\ opIn.value < 2 => opOut = opIn.value

C17_Witness ==
    /\ OpIs("bigIntSqrt")
    /\ opIn.value = 399
    /\ opOut = 19

-----------------------------------------------------------------------------
(* Claims C19 - C20 *)

IsExpCall == call # NoCall /\ call.fn \in {"expWithConvergents", "exp", "cos", "sin"}

\* no coefficient has been generated and computeAllConvergents has not run
EngineUntouched ==
    /\ coefficients = << >>
    /\ convergents = << >>
    /\ ccPc = "off"
    /\ ccRet = NoCall

\* C19: with angle 0 expWithConvergents returns at once [ONE] as base and as
\* final convergents, mathLimitIndex -1 and the three metrics 0, generating
\* no coefficient and computing no convergent, whatever terms and
\* exactRational are.
C19_ZeroAngleReturnsOne ==
    /\ [](( IsExpCall /\ call.angle.kind = "number" /\ call.angle.zero) =>
            /\ expPc \in {"start", "done"}
            /\ EngineUntouched
            /\ expPc = "done" =>
                   expRet = [called |-> TRUE,
                             baseConvergents |-> << Cx(1, 0) >>,
                             finalConvergents |-> << Cx(1, 0) >>,
                             mathLimitIndex |-> -1,
                             iterationMetrics |->
                                 [convergentIterations |-> 0,
                                  exponentIterations |-> 0,
                                  totalIterations |-> 0]])
    /\ [][(IsExpCall /\ call.angle.kind = "number" /\ call.angle.zero
              /\ expPc = "start") => expPc' = "done"]_vars

C19_Witness ==
    /\ IsExpCall
    /\ call.angle.kind = "number"
    /\ call.angle.zero
    /\ call.terms = 4
    /\ call.exactRational = ExactRational(1, 2)
    /\ expPc = "done"
    /\ expRet.finalConvergents = << Cx(1, 0) >>

\* C20: given an angle that is not a number or is NaN, expWithConvergents,
\* and with it exp, cos and sin, raises the invalid-angle error before any
\* coefficient is generated or convergent computed, and returns nothing.
C20_InvalidAngleRaises ==
    /\ []((IsExpCall /\ call.angle.kind # "number") =>
            /\ expPc \in {"start", "thrown"}
            /\ EngineUntouched
            /\ expPc = "thrown" =>
                   expRet = Thrown("Angle must be a valid number.")
            /\ (call.fn # "expWithConvergents") =>
                   /\ trigPc \in {"called", "thrown"}
                   /\ trigPc = "thrown" =>
                          trigRet = Thrown("Angle must be a valid number."))
    /\ [][(IsExpCall /\ call.angle.kind # "number" /\ expPc = "start")
              => expPc' = "thrown"]_vars

C20_Witness ==
    /\ IsExpCall
    /\ call.fn = "cos"
    /\ call.angle = NaN
    /\ trigPc = "thrown"
    /\ trigRet = Thrown("Angle must be a valid number.")

-----------------------------------------------------------------------------
(* Claims C21 - C30 *)

\* the call is expWithConvergents, directly or through exp, cos or sin, with
\* a nonzero angle whose denominator is at least 1, and it has returned
NonzeroAngleReturned ==
    /\ IsExpCall
    /\ call.angle.kind = "number"
    /\ ~call.angle.zero
    /\ angleDenominator(call) >= 1
    /\ expPc = "done"

\* C21: for a nonzero angle with denominator q >= 1 and every term count,
\* baseConvergents and finalConvergents have the same length, the number of
\* coefficients generated for q; finalConvergents[i] is
\* powComplexStable(baseConvergents[i], numerator); the convergents after
\* mathLimitIndex are kept.
C21_ConvergentsKept ==
    NonzeroAngleReturned =>
        LET generated == generateCoefficients(angleDenominator(call),
                                              call.terms)
        IN  /\ Len(expRet.baseConvergents) = Len(generated)
            /\ Len(expRet.finalConvergents) = Len(generated)
            /\ expRet.baseConvergents = convergents
            /\ expRet.mathLimitIndex < Len(generated)
            /\ \A j \in 1..Len(generated) :
                   expRet.finalConvergents[j] =
                       powComplexStable(expRet.baseConvergents[j],
                                        Exponent("bigint",
                                                 angleNumerator(call)))

C21_Witness ==
    /\ NonzeroAngleReturned
    /\ call.terms = 4
    /\ expRet.mathLimitIndex >= 0
    /\ expRet.mathLimitIndex + 1 < Len(expRet.finalConvergents)
    /\ Len(expRet.baseConvergents) = 4

\* expWithConvergents was given {n: 1, d: 2} as the exact rational and, with
\* at least 2 terms, has returned
HalfAngleReturned ==
    /\ NonzeroAngleReturned
    /\ call.fn = "expWithConvergents"
    /\ call.exactRational = ExactRational(1, 2)
    /\ call.terms >= 2

\* the last entry of finalConvergents
LastFinal == expRet.finalConvergents[Len(expRet.finalConvergents)]

RECURSIVE powIterationsFrom(_)
powIterationsFrom(e) == IF e > 0 THEN 1 + powIterationsFrom(e \div 2) ELSE 0

powIterations(e) == powIterationsFrom(powExp(e))

\* C23: for every nonzero numerator the metric exponentIterations is the
\* number of squaring steps powComplexStable performs for that numerator,
\* which is the bit length of |numerator|; totalIterations is
\* convergentIterations + exponentIterations, and convergentIterations is
\* mathLimitIndex + 1 when a limit was found and the number of convergents
\* otherwise.
C23_ExponentIterationsCountSquarings ==
    (IsExpCall /\ call.angle.kind = "number" /\ ~call.angle.zero
        /\ angleNumerator(call) # 0 /\ expPc = "done") =>
        LET metrics == expRet.iterationMetrics
        IN  /\ metrics.exponentIterations =
                   powIterations(Exponent("bigint", angleNumerator(call)))
            /\ metrics.exponentIterations =
                   BitLength(Abs(angleNumerator(call)))
            /\ metrics.totalIterations =
                   metrics.convergentIterations + metrics.exponentIterations
            /\ metrics.convergentIterations =
                   IF expRet.mathLimitIndex >= 0
                   THEN expRet.mathLimitIndex + 1
                   ELSE Len(expRet.baseConvergents)

C25_PowTerminates ==
    /\ <>(powPc = "done")
    /\ [][powPc = "shift" =>
              exp > 0 /\ exp' = exp \div 2 /\ exp' < exp /\ exp' >= 0]_vars
    /\ []((powPc = "done" /\ exponent.val = 0) =>
              /\ powRet = Cx(1, 0)
              /\ resultFrom = "init"
              /\ xFrom = "init")

C25_Witness ==
    /\ powPc = "done"
    /\ exponent = Exponent("bigint", 6)
    /\ exp = 0
    /\ xFrom = "normalizeComplex"
    /\ resultFrom = "normalizeComplex"

\* C26: for a canonical rational whose numerator or denominator is longer
\* than the bit limit, toFloating shifts both right by the longer bit length
\* less the kept bits, and the result is never infinity or NaN: the shifted
\* denominator, by which the shifted numerator is divided, is never 0.
C26_ShiftedConversionIsFinite ==
    (OpIs("toFloating")
        /\ (BitLength(Abs(opIn.n)) > FloatBitLimit
               \/ BitLength(opIn.d) > FloatBitLimit)) =>
        LET nBits == BitLength(Abs(opIn.n))
            dBits == BitLength(opIn.d)
            shift == (IF nBits > dBits THEN nBits ELSE dBits) - FloatKeptBits
        IN  /\ opOut = Float(opIn.n \div (2 ^ shift), opIn.d \div (2 ^ shift))
            /\ opOut.float[2] # 0

\* C27: normalizeComplex returns the zero complex only for zero: for every
\* nonzero z, whatever its magnitude, the result has a nonzero real or
\* imaginary part, and each nonzero part of the result has the sign of the
\* same part of z.
C27_NormalizeKeepsNonzeroAndSigns ==
    (OpIs("normalizeComplex") /\ opIn.z # Cx(0, 0)) =>
        /\ opOut # Cx(0, 0)
        /\ opOut.re.n > 0 => opIn.z.re.n > 0
        /\ opOut.re.n < 0 => opIn.z.re.n < 0
        /\ opOut.im.n > 0 => opIn.z.im.n > 0
        /\ opOut.im.n < 0 => opIn.z.im.n < 0

\* C28: approxFrac is exact when no approximation is needed: for num >= 0,
\* den > 0 and maxDenominator >= 1 with den / gcd(num, den) <=
\* maxDenominator it returns num/den in lowest terms; and for every input
\* the remainder b strictly decreases in magnitude from one pass of the
\* loop to the next, so the loop terminates.
C28_ExactWithinCap ==
    afIn.called =>
        /\ (afIn.num >= 0
               /\ afIn.den \div GreatestCommonDivisor(afIn.num, afIn.den)
                      <= afIn.maxDen) =>
               LET g == GreatestCommonDivisor(afIn.num, afIn.den)
               IN  afOut = [n |-> afIn.num \div g, d |-> afIn.den \div g]
        /\ LET bs == approxFracRemainders(afIn.num, afIn.den, 1, 0,
                                          afIn.maxDen)
           IN  \A j \in 1..(Len(bs) - 1) : Abs(bs[j + 1]) < Abs(bs[j])

C28_Witness ==
    /\ afIn.called
    /\ afIn.num = 12
    /\ afIn.den = 8
    /\ afIn.maxDen = 2
    /\ afOut = [n |-> 3, d |-> 2]

\* C29: for every q >= 1 and every k >= 0 computeAllConvergents, applied to
\* generateCoefficients(q, k) and any numerator, completes without a
\* division by zero: no continuant q_n of a generated sequence is zero; and
\* expWithConvergents never fails for a nonzero angle whose denominator is
\* positive.
C29_GeneratedNeverDividesByZero ==
    /\ (call # NoCall /\ call.fn = "computeAllConvergents"
           /\ IsGenerated) =>
           /\ ccPc # "thrown"
           /\ ccPc = "loop" => ~DivideThrows(q_prev) \/ i = 0
    /\ (IsExpCall /\ call.angle.kind = "number" /\ ~call.angle.zero
           /\ angleDenominator(call) >= 1) =>
           /\ ccPc # "thrown"
           /\ expPc # "thrown"
           /\ ccPc = "loop" => ~DivideThrows(q_prev) \/ i = 0
           /\ expPc = "done" => expRet.called

C29_Witness ==
    /\ IsExpCall
    /\ call.fn = "expWithConvergents"
    /\ call.exactRational = ExactRational(-1, 1)
    /\ call.terms = 4
    /\ expPc = "done"
    /\ Len(expRet.baseConvergents) = 4
    /\ i = 4

\* the calls, for the ip that is rate limited, that resolved to true
Admitted == { c \in Callers : ~FailsOpen(c) /\ rlRet[c] = Resolved(TRUE) }

\* C30: for one (ip, endpoint) and one window whose key does not expire, in
\* every interleaving at most maxRequests calls resolve to true: the key
\* counts the calls that created or incremented it, the creating call
\* resolves to 1 <= maxRequests and every other call to whether the count
\* it read after its increment is within maxRequests; a call with ip
\* "unknown" or "local" resolves to true and writes no key.
C30_AtMostMaxRequestsAdmitted ==
    /\ [](rlPc[1] # "off" =>
            /\ Cardinality(Admitted) <= maxRequests
            /\ kv[currentBucket].value =
                   Cardinality({ c \in Callers :
                                   /\ ~FailsOpen(c)
                                   /\ rlPc[c] \in {"created", "get",
                                                    "decide", "done"} })
            /\ \A c \in Callers :
                   /\ (FailsOpen(c) /\ rlPc[c] = "done") =>
                          rlRet[c] = Resolved(TRUE)
                   /\ (~FailsOpen(c) /\ rlPc[c] = "done"
                          /\ rlEntry[c] # NoEntry) =>
                          rlRet[c] = Resolved(rlEntry[c].value <= maxRequests))
    /\ [][\A c \in Callers :
              (FailsOpen(c) /\ rlPc'[c] # rlPc[c]) => kv' = kv]_vars

C30_Witness ==
    /\ maxRequests = 2
    /\ \A c \in Callers : ~FailsOpen(c) /\ rlPc[c] = "done"
    /\ Cardinality(Admitted) = 2
    /\ kv[currentBucket] = Entry(MaxCallers)
    /\ kv[zombieBucket] = NoEntry
    /\ prunePc = "done"

=============================================================================
